---- MODULE Spec2Model ----
(***************************************************************************)
(* MemcacheDB item layer (src/item.c): the freelist of item buffers, the   *)
(* item allocator, and the store access operations item_get / item_put /   *)
(* item_delete / item_exists on top of a keyed byte-record store.          *)
(*                                                                         *)
(* Sizes are byte counts.  A buffer is a heap cell with its real capacity  *)
(* and the item fields currently written in it; the store keeps, per key,  *)
(* the bytes of the record last written.                                   *)
(***************************************************************************)
EXTENDS Integers, Sequences, FiniteSets, TLC

(***************************************************************************)
(* Program constants and configuration.                                    *)
(***************************************************************************)

\* INIT_ITEM_FREELIST_LENGTH (500) and MAX_ITEM_FREELIST_LENGTH (4000) at
\* model scale.  The maximum is the initial length doubled a whole number
\* of times (4000 = 500 * 2^3), so the doubling capacity lands on it.
INIT_ITEM_FREELIST_LENGTH == 1

\* Number of doublings from the initial length to the maximum.
Doublings == 1

MAX_ITEM_FREELIST_LENGTH == INIT_ITEM_FREELIST_LENGTH * 2^Doublings

\* settings.item_buf_size: the standard buffer size (configuration).
item_buf_size == 64

\* sizeof(item): int nbytes, uint8_t nsuffix, uint8_t nkey, padded.
sizeof_item == 8

\* Number of heap cells malloc can hand out before it fails.
MaxBufs == 3

NULL == 0

BufIds == 1..MaxBufs

\* Worker threads running item_get.
Workers == {"w1"}

\* Store statuses (Berkeley DB return codes).
DB_OK == "0"

DB_BUFFER_SMALL == "DB_BUFFER_SMALL"

DB_NOTFOUND == "DB_NOTFOUND"

DB_ERROR == "DB_ERROR"

(***************************************************************************)
(* Keys, flags and payloads the callers use.                               *)
(***************************************************************************)
KeyOfLen(n) == [i \in 1..n |-> "k"]

\* Keys of the concurrent specification.
Keys == {KeyOfLen(1)}

\* Keys of the sequential round-trip specification: empty, short, the
\* longest whose nkey + 1 fits in 8 bits, and the longest an 8-bit length
\* admits.
KeysRT == {KeyOfLen(0), KeyOfLen(1), KeyOfLen(254), KeyOfLen(255)}

FlagsRT == {0, 12}

\* nbytes: payload length including the trailing CRLF.
NBytes == {3, 100}

\* Two sizes above the standard size.
NBytesGrow == {100, 200}

NBytesRT == {3, 50, 100}

Payloads == {"p"}

PayloadsRT == {"p", "q"}

\* Bytes that are not the ones written: data, and key or suffix text.
GARBAGE == "garbage"

GARBAGE_TEXT == <<"?">>

Min(a, b) == IF a < b THEN a ELSE b

(***************************************************************************)
(* Record codec.                                                           *)
(***************************************************************************)
Digit(d) == <<"0", "1", "2", "3", "4", "5", "6", "7", "8", "9">>[d + 1]

RECURSIVE DecNat(_)
DecNat(n) == IF n < 10 THEN <<Digit(n)>> ELSE DecNat(n \div 10) \o <<Digit(n % 10)>>

\* printf("%d")
DecStr(n) == IF n < 0 THEN <<"-">> \o DecNat(-n) ELSE DecNat(n)

\* The text snprintf(" %d %d\r\n", flags, nbytes - 2) would produce unbounded.
SuffixText(flags, nbytes) ==
    <<" ">> \o DecStr(flags) \o <<" ">> \o DecStr(nbytes - 2) \o <<"\r", "\n">>

ToUint8(n) == n % 256

\* item_make_header: nkey arrives as uint8_t; the suffix buffer holds 40
\* chars (39 and the NUL), *nsuffix is snprintf's return value as uint8_t.
item_make_header(nkey, flags, nbytes) ==
    LET text == SuffixText(flags, nbytes)
        nsuffix == ToUint8(Len(text))
    IN  [suffix  |-> SubSeq(text, 1, Min(Len(text), 39)),
         nsuffix |-> nsuffix,
         ntotal  |-> sizeof_item + ToUint8(nkey) + nsuffix + nbytes]

\* ITEM_ntotal(it): total size from the item's own header fields.
ITEM_ntotal(b) == sizeof_item + b.nkey + 1 + b.nsuffix + b.nbytes

\* Offsets one past the key (with its NUL), the suffix and the data.
ITEM_key_end(b) == sizeof_item + b.nkey + 1

ITEM_suffix_end(b) == ITEM_key_end(b) + b.nsuffix

ITEM_data_end(b) == ITEM_suffix_end(b) + b.nbytes

(***************************************************************************)
(* State.                                                                  *)
(***************************************************************************)
VARIABLES
    freeitem,       \* item **freeitem: array of freeitemtotal slots
    freeitemtotal,  \* capacity of the freelist
    freeitemcurr,   \* number of buffers in the freelist
    heap,           \* heap cell of every buffer id (cap = 0: not allocated)
    store,          \* the backing store: key -> bytes of the record
    pc,             \* item_get: position of each worker
    it,             \* item_get: local `it` of each worker
    dbkey,          \* item_get: key argument of each worker
    dbdata,         \* item_get: dbdata.ulen and dbdata.size of each worker
    cnt,            \* per call of item_get: store reads, allocations, releases
    held,           \* records the callers own (returned and not yet freed)
    inflight,       \* buffers handed out minus buffers given back
    last,           \* the operation that ran last and what it returned
    fault,          \* a released buffer was released or used again
    rt,             \* the round-trip scenario: its phase and its inputs
    observe         \* whether `last` is recorded in this specification

vars == <<freeitem, freeitemtotal, freeitemcurr, heap, store, pc, it, dbkey,
          dbdata, cnt, held, inflight, last, fault, rt, observe>>

poolvars == <<freeitem, freeitemtotal, freeitemcurr>>

getvars == <<pc, it, dbkey, dbdata, cnt>>

\* A heap cell that is not allocated, and the bytes of no record.
NoBuf == [cap |-> 0, nkey |-> 0, nbytes |-> 0, nsuffix |-> 0,
          key |-> <<>>, suffix |-> <<>>, data |-> ""]

NoRec == [size |-> 0, nkey |-> 0, nbytes |-> 0, nsuffix |-> 0,
          key |-> <<>>, suffix |-> <<>>, data |-> ""]

\* memset(it, 0, n) on a fresh allocation of n bytes.
Zeroed(n) == [NoBuf EXCEPT !.cap = n]

InFreelist(b) == \E i \in 1..freeitemcurr : freeitem[i] = b

\* malloc(n): a fresh cell, or NULL when allocation fails.
malloc(ok) ==
    LET unused == {b \in BufIds : heap[b].cap = 0}
    IN  IF ok /\ unused # {}
        THEN CHOOSE b \in unused : \A c \in unused : b <= c
        ELSE NULL

(***************************************************************************)
(* Buffer pool.  Each operation is one critical section of the pool lock.  *)
(***************************************************************************)
\* A pop whose fresh buffer has the size of the item header only.
do_item_from_freelist_header(ok) ==
    IF freeitemcurr > 0
    THEN [s |-> freeitem[freeitemcurr],
          freeitem |-> [freeitem EXCEPT ![freeitemcurr] = NULL],
          freeitemcurr |-> freeitemcurr - 1, heap |-> heap]
    ELSE LET s == malloc(ok)
         IN  [s |-> s, freeitem |-> freeitem, freeitemcurr |-> freeitemcurr,
              heap |-> IF s = NULL THEN heap
                       ELSE [heap EXCEPT ![s] = Zeroed(sizeof_item)]]

\* A pop from the bottom of the array: the oldest buffer first.
do_item_from_freelist_fifo(ok) ==
    IF freeitemcurr > 0
    THEN [s |-> freeitem[1],
          freeitem |-> [i \in 1..freeitemtotal |->
                          IF i < freeitemcurr THEN freeitem[i + 1] ELSE NULL],
          freeitemcurr |-> freeitemcurr - 1, heap |-> heap]
    ELSE LET s == malloc(ok)
         IN  [s |-> s, freeitem |-> freeitem, freeitemcurr |-> freeitemcurr,
              heap |-> IF s = NULL THEN heap
                       ELSE [heap EXCEPT ![s] = Zeroed(item_buf_size)]]

\* A pop that leaves the buffer in its slot.
do_item_from_freelist_keep(ok) ==
    IF freeitemcurr > 0
    THEN [s |-> freeitem[freeitemcurr], freeitem |-> freeitem,
          freeitemcurr |-> freeitemcurr, heap |-> heap]
    ELSE LET s == malloc(ok)
         IN  [s |-> s, freeitem |-> freeitem, freeitemcurr |-> freeitemcurr,
              heap |-> IF s = NULL THEN heap
                       ELSE [heap EXCEPT ![s] = Zeroed(item_buf_size)]]

\* s = freeitem[--freeitemcurr], else malloc and memset of item_buf_size.
\* The slots from freeitemcurr up are never read before they are written;
\* the model keeps them NULL.
do_item_from_freelist(ok) ==
    IF freeitemcurr > 0
    THEN [s |-> freeitem[freeitemcurr],
          freeitem |-> [freeitem EXCEPT ![freeitemcurr] = NULL],
          freeitemcurr |-> freeitemcurr - 1, heap |-> heap]
    ELSE LET s == malloc(ok)
         IN  [s |-> s, freeitem |-> freeitem, freeitemcurr |-> freeitemcurr,
              heap |-> IF s = NULL THEN heap
                       ELSE [heap EXCEPT ![s] = Zeroed(item_buf_size)]]

\* realloc(freeitem, sizeof(item *) * freeitemtotal * 2)
GrowFreelist == freeitem \o [i \in 1..freeitemtotal |-> NULL]

\* A release without the test against MAX_ITEM_FREELIST_LENGTH.
do_item_add_to_freelist_nocap(b, ok) ==
    IF freeitemcurr < freeitemtotal
    THEN [ret |-> 0, freeitem |-> [freeitem EXCEPT ![freeitemcurr + 1] = b],
          freeitemcurr |-> freeitemcurr + 1, freeitemtotal |-> freeitemtotal]
    ELSE IF ok
    THEN [ret |-> 0,
          freeitem |-> [GrowFreelist EXCEPT ![freeitemcurr + 1] = b],
          freeitemcurr |-> freeitemcurr + 1,
          freeitemtotal |-> freeitemtotal * 2]
    ELSE [ret |-> 1, freeitem |-> freeitem, freeitemcurr |-> freeitemcurr,
          freeitemtotal |-> freeitemtotal]

\* Store b in the next slot; when the array is full, fail at
\* MAX_ITEM_FREELIST_LENGTH, else double the array with realloc and fail if
\* realloc fails.  Returns 0 on success and 1 on failure.
do_item_add_to_freelist(b, ok) ==
    IF freeitemcurr < freeitemtotal
    THEN [ret |-> 0, freeitem |-> [freeitem EXCEPT ![freeitemcurr + 1] = b],
          freeitemcurr |-> freeitemcurr + 1, freeitemtotal |-> freeitemtotal]
    ELSE IF freeitemtotal >= MAX_ITEM_FREELIST_LENGTH
    THEN [ret |-> 1, freeitem |-> freeitem, freeitemcurr |-> freeitemcurr,
          freeitemtotal |-> freeitemtotal]
    ELSE IF ok
    THEN [ret |-> 0,
          freeitem |-> [GrowFreelist EXCEPT ![freeitemcurr + 1] = b],
          freeitemcurr |-> freeitemcurr + 1,
          freeitemtotal |-> freeitemtotal * 2]
    ELSE [ret |-> 1, freeitem |-> freeitem, freeitemcurr |-> freeitemcurr,
          freeitemtotal |-> freeitemtotal]

(***************************************************************************)
(* Item allocator.                                                         *)
(***************************************************************************)
\* An item_alloc2 that takes every buffer from the freelist.
item_alloc2_pool(ntotal, ok) == do_item_from_freelist(ok)

\* The size-class routing shared by item_alloc1 and item_alloc2: malloc and
\* memset of ntotal bytes above the standard size, the freelist otherwise.
item_alloc2(ntotal, ok) ==
    IF ntotal > item_buf_size
    THEN LET s == malloc(ok)
         IN  [s |-> s, freeitem |-> freeitem, freeitemcurr |-> freeitemcurr,
              heap |-> IF s = NULL THEN heap
                       ELSE [heap EXCEPT ![s] = Zeroed(ntotal)]]
    ELSE do_item_from_freelist(ok)

\* A write of v that ends at offset `end` of a buffer of `cap` bytes.  Past
\* the end of the buffer the write is undefined behaviour: the bytes land
\* in memory the buffer does not own, and reading them back yields them or
\* whatever replaced them.
Written(cap, end, v, garbage, clobber) ==
    IF end <= cap THEN v ELSE IF clobber THEN garbage ELSE v

\* item_alloc1: size from item_make_header(nkey + 1, ...), buffer by size
\* class, then it->nkey, it->nbytes, strcpy of the key, memcpy of the
\* suffix, it->nsuffix.  The data bytes are left as they were.
item_alloc1(key, nkey, flags, nbytes, ok, clobber) ==
    LET h == item_make_header(nkey + 1, flags, nbytes)
        r == item_alloc2(h.ntotal, ok)
    IN  IF r.s = NULL THEN r
        ELSE LET cell == r.heap[r.s]
                 hdr == [cell EXCEPT !.nkey = ToUint8(nkey), !.nbytes = nbytes,
                                     !.nsuffix = h.nsuffix]
                 new == [hdr EXCEPT
                           !.key = Written(cell.cap, ITEM_key_end(hdr), key,
                                           GARBAGE_TEXT, clobber),
                           !.suffix = Written(cell.cap, ITEM_suffix_end(hdr),
                                              h.suffix, GARBAGE_TEXT, clobber)]
             IN  [r EXCEPT !.heap = [r.heap EXCEPT ![r.s] = new]]

\* The caller of item_alloc1 copies the payload (nbytes bytes, CRLF
\* included) to ITEM_data(it).
FillData(cell, payload, clobber) ==
    [cell EXCEPT !.data = Written(cell.cap, ITEM_data_end(cell), payload,
                                  GARBAGE, clobber)]

\* An item_free that keeps the buffer the freelist refused.
item_free_keep(b, ok) ==
    IF b = NULL
    THEN [ret |-> 0, add |-> -1, freed |-> FALSE, freeitem |-> freeitem,
          freeitemcurr |-> freeitemcurr, freeitemtotal |-> freeitemtotal,
          heap |-> heap]
    ELSE IF ITEM_ntotal(heap[b]) > item_buf_size
    THEN [ret |-> 0, add |-> -1, freed |-> TRUE, freeitem |-> freeitem,
          freeitemcurr |-> freeitemcurr, freeitemtotal |-> freeitemtotal,
          heap |-> [heap EXCEPT ![b] = NoBuf]]
    ELSE LET a == do_item_add_to_freelist(b, ok)
         IN  [ret |-> 0, add |-> a.ret, freed |-> FALSE,
              freeitem |-> a.freeitem, freeitemcurr |-> a.freeitemcurr,
              freeitemtotal |-> a.freeitemtotal, heap |-> heap]

\* An item_free without the test for NULL: the pointer goes to the freelist.
item_free_nonull(b, ok) ==
    LET a == do_item_add_to_freelist(b, ok)
    IN  [ret |-> 0, add |-> a.ret, freed |-> FALSE,
         freeitem |-> a.freeitem, freeitemcurr |-> a.freeitemcurr,
         freeitemtotal |-> a.freeitemtotal, heap |-> heap]

\* item_free: NULL is ignored; an item whose ITEM_ntotal exceeds the
\* standard size is free()d, any other goes to the freelist and is free()d
\* when the freelist refuses it.  Returns 0.
item_free(b, ok) ==
    IF b = NULL
    THEN [ret |-> 0, add |-> -1, freed |-> FALSE, freeitem |-> freeitem,
          freeitemcurr |-> freeitemcurr, freeitemtotal |-> freeitemtotal,
          heap |-> heap]
    ELSE IF ITEM_ntotal(heap[b]) > item_buf_size
    THEN [ret |-> 0, add |-> -1, freed |-> TRUE, freeitem |-> freeitem,
          freeitemcurr |-> freeitemcurr, freeitemtotal |-> freeitemtotal,
          heap |-> [heap EXCEPT ![b] = NoBuf]]
    ELSE LET a == do_item_add_to_freelist(b, ok)
         IN  [ret |-> 0, add |-> a.ret, freed |-> a.ret # 0,
              freeitem |-> a.freeitem, freeitemcurr |-> a.freeitemcurr,
              freeitemtotal |-> a.freeitemtotal,
              heap |-> IF a.ret # 0 THEN [heap EXCEPT ![b] = NoBuf] ELSE heap]

\* item_free was handed a buffer that is not allocated or already sits in
\* the freelist (a second release).
BadFree(b) == b # NULL /\ (heap[b].cap = 0 \/ InFreelist(b))

(***************************************************************************)
(* The backing store (Berkeley DB handle dbp), as item.c calls it.         *)
(***************************************************************************)
\* dbp->get with DB_DBT_USERMEM: the record is copied when it fits in ulen
\* bytes, else DB_BUFFER_SMALL with the size needed in dbdata.size.
db_get(key, ulen, fail) ==
    IF fail THEN [ret |-> DB_ERROR, size |-> 0]
    ELSE IF store[key].size = 0 THEN [ret |-> DB_NOTFOUND, size |-> 0]
    ELSE IF store[key].size > ulen
    THEN [ret |-> DB_BUFFER_SMALL, size |-> store[key].size]
    ELSE [ret |-> DB_OK, size |-> store[key].size]

\* The buffer after a successful read: the record's bytes at its start.
ReadInto(cell, rec) ==
    [cap |-> cell.cap, nkey |-> rec.nkey, nbytes |-> rec.nbytes,
     nsuffix |-> rec.nsuffix, key |-> rec.key, suffix |-> rec.suffix,
     data |-> rec.data]

\* The bytes dbp->put reads: the first `size` bytes of the buffer.  Bytes
\* past the buffer's capacity are read out of bounds.
ReadOut(cell, size, clobber) ==
    [size |-> size, nkey |-> cell.nkey, nbytes |-> cell.nbytes,
     nsuffix |-> cell.nsuffix,
     key |-> Written(cell.cap, ITEM_key_end(cell), cell.key, GARBAGE_TEXT,
                     clobber),
     suffix |-> Written(cell.cap, ITEM_suffix_end(cell), cell.suffix,
                        GARBAGE_TEXT, clobber),
     data |-> Written(cell.cap, ITEM_data_end(cell), cell.data, GARBAGE,
                      clobber)]

db_put(key, rec, fail) ==
    IF fail THEN [ret |-> DB_ERROR, store |-> store]
    ELSE [ret |-> DB_OK, store |-> [store EXCEPT ![key] = rec]]

db_del(key, fail) ==
    IF fail THEN [ret |-> DB_ERROR, store |-> store]
    ELSE IF store[key].size = 0 THEN [ret |-> DB_NOTFOUND, store |-> store]
    ELSE [ret |-> DB_OK, store |-> [store EXCEPT ![key] = NoRec]]

db_exists(key, fail) ==
    IF fail THEN DB_ERROR
    ELSE IF store[key].size = 0 THEN DB_NOTFOUND ELSE DB_OK

\* An item_delete that reports every status but success as -1.
item_delete_result_collapsed(ret) == IF ret = DB_OK THEN 0 ELSE -1

\* Return values of the store access operations.
item_get_result(ret, b) == IF ret = DB_OK THEN b ELSE NULL

item_put_result(ret) == IF ret = DB_OK THEN 0 ELSE -1

item_delete_result(ret) ==
    IF ret = DB_OK THEN 0 ELSE IF ret = DB_NOTFOUND THEN 1 ELSE -1

item_exists_result(ret) == IF ret = DB_OK THEN 1 ELSE 0

(***************************************************************************)
(* Initial state: after item_init, with an empty store and idle workers.   *)
(***************************************************************************)
AllKeys == Keys \cup KeysRT

NoCnt == [reads |-> 0, allocs |-> 0, frees |-> 0]

NoData == [ulen |-> 0, size |-> 0]

NoLast == [op |-> "", key |-> <<>>, buf |-> NULL, ret |-> 0, status |-> "",
           add |-> -1]

\* What an operation leaves in `last`: its name, its key and buffer
\* arguments (or the buffer it returns), its return value, the status of
\* its store call and the return value of do_item_add_to_freelist (-1: not
\* called).
Last(op, key, buf, ret, status, add) ==
    IF observe
    THEN [op |-> op, key |-> key, buf |-> buf, ret |-> ret, status |-> status,
          add |-> add]
    ELSE NoLast

NoRT == [phase |-> "init", key |-> <<>>, flags |-> 0, nbytes |-> 0,
         payload |-> "", it |-> NULL]

item_init ==
    /\ freeitemtotal = INIT_ITEM_FREELIST_LENGTH
    /\ freeitemcurr = 0
    /\ freeitem = [i \in 1..INIT_ITEM_FREELIST_LENGTH |-> NULL]

InitWith(obs) ==
    /\ item_init
    /\ heap = [b \in BufIds |-> NoBuf]
    /\ store = [k \in AllKeys |-> NoRec]
    /\ pc = [w \in Workers |-> "idle"]
    /\ it = [w \in Workers |-> NULL]
    /\ dbkey = [w \in Workers |-> <<>>]
    /\ dbdata = [w \in Workers |-> NoData]
    /\ cnt = [w \in Workers |-> NoCnt]
    /\ held = {}
    /\ inflight = 0
    /\ last = NoLast
    /\ fault = FALSE
    /\ rt = NoRT
    /\ observe = obs

Init == InitWith(FALSE)

(***************************************************************************)
(* Operations the callers run in one step: the allocator and the store     *)
(* operations that make a single store call.                               *)
(***************************************************************************)
\* item_alloc1 followed by the caller's copy of the payload.
Alloc1(key, flags, nbytes, payload, ok, clobber) ==
    \E r \in {item_alloc1(key, Len(key), flags, nbytes, ok, clobber)} :
        /\ freeitem' = r.freeitem
        /\ freeitemcurr' = r.freeitemcurr
        /\ heap' = IF r.s = NULL THEN r.heap
                   ELSE [r.heap EXCEPT ![r.s] = FillData(@, payload, clobber)]
        /\ held' = IF r.s = NULL THEN held ELSE held \cup {r.s}
        /\ inflight' = IF r.s = NULL THEN inflight ELSE inflight + 1
        /\ last' = Last("item_alloc1", key, r.s, r.s, "", -1)
        /\ UNCHANGED <<freeitemtotal, store, getvars, fault>>

\* item_free of a record a caller owns.
Free(b, ok) ==
    /\ b \in held
    /\ \E r \in {item_free(b, ok)} :
        /\ freeitem' = r.freeitem
        /\ freeitemcurr' = r.freeitemcurr
        /\ freeitemtotal' = r.freeitemtotal
        /\ heap' = r.heap
        /\ held' = held \ {b}
        /\ inflight' = inflight - 1
        /\ fault' = (fault \/ BadFree(b))
        /\ last' = Last("item_free", <<>>, b, r.ret, "", r.add)
        /\ UNCHANGED <<store, getvars>>

\* item_free(NULL).
FreeNull(ok) ==
    \E r \in {item_free(NULL, ok)} :
        /\ freeitem' = r.freeitem
        /\ freeitemcurr' = r.freeitemcurr
        /\ freeitemtotal' = r.freeitemtotal
        /\ heap' = r.heap
        /\ last' = Last("item_free", <<>>, NULL, r.ret, "", r.add)
        /\ UNCHANGED <<store, getvars, held, inflight, fault>>

\* An item_put that releases the record when the write fails.
Put_release(key, b, fail, clobber) ==
    /\ b \in held
    /\ \E r \in {db_put(key, ReadOut(heap[b], ITEM_ntotal(heap[b]), clobber),
                       fail)} :
        /\ store' = r.store
        /\ last' = Last("item_put", key, b, item_put_result(r.ret), r.ret, -1)
        /\ IF r.ret = DB_OK
           THEN UNCHANGED <<poolvars, heap, held, inflight>>
           ELSE \E f \in {item_free(b, TRUE)} :
                    /\ freeitem' = f.freeitem
                    /\ freeitemcurr' = f.freeitemcurr
                    /\ freeitemtotal' = f.freeitemtotal
                    /\ heap' = f.heap
                    /\ held' = held \ {b}
                    /\ inflight' = inflight - 1
        /\ UNCHANGED <<getvars, fault>>

\* item_put of a record a caller owns: dbdata.size = ITEM_ntotal(it).
Put(key, b, fail, clobber) ==
    /\ b \in held
    /\ \E r \in {db_put(key, ReadOut(heap[b], ITEM_ntotal(heap[b]), clobber),
                       fail)} :
        /\ store' = r.store
        /\ last' = Last("item_put", key, b, item_put_result(r.ret), r.ret, -1)
        /\ UNCHANGED <<poolvars, heap, getvars, held, inflight, fault>>

Delete(key, fail) ==
    \E r \in {db_del(key, fail)} :
        /\ store' = r.store
        /\ last' = Last("item_delete", key, NULL, item_delete_result(r.ret),
                        r.ret, -1)
        /\ UNCHANGED <<poolvars, heap, getvars, held, inflight, fault>>

Exists(key, fail) ==
    \E ret \in {db_exists(key, fail)} :
        /\ last' = Last("item_exists", key, NULL, item_exists_result(ret),
                        ret, -1)
        /\ UNCHANGED <<poolvars, heap, store, getvars, held, inflight, fault>>

(***************************************************************************)
(* item_get, one step per pool operation and per store read.               *)
(***************************************************************************)
\* The call returns `b` to its caller, who owns the record from then on.
GetReturn(w, b, status) ==
    /\ pc' = [pc EXCEPT ![w] = "idle"]
    /\ it' = [it EXCEPT ![w] = NULL]
    /\ dbkey' = [dbkey EXCEPT ![w] = <<>>]
    /\ dbdata' = [dbdata EXCEPT ![w] = NoData]
    /\ cnt' = [cnt EXCEPT ![w] = NoCnt]
    /\ held' = IF b = NULL THEN held ELSE held \cup {b}
    /\ last' = Last("item_get", dbkey[w], b, b, status, -1)

\* it = item_alloc2(settings.item_buf_size); dbdata.ulen = item_buf_size.
GetStart(w, key, ok) ==
    /\ pc[w] = "idle"
    /\ \E r \in {item_alloc2(item_buf_size, ok)} :
        /\ freeitem' = r.freeitem
        /\ freeitemcurr' = r.freeitemcurr
        /\ heap' = r.heap
        /\ IF r.s = NULL
           THEN /\ last' = Last("item_get", key, NULL, NULL, "", -1)
                /\ UNCHANGED <<getvars, inflight>>
           ELSE /\ pc' = [pc EXCEPT ![w] = "read"]
                /\ it' = [it EXCEPT ![w] = r.s]
                /\ dbkey' = [dbkey EXCEPT ![w] = key]
                /\ dbdata' = [dbdata EXCEPT ![w] = [ulen |-> item_buf_size,
                                                    size |-> 0]]
                /\ cnt' = [cnt EXCEPT ![w] = [NoCnt EXCEPT !.allocs = 1]]
                /\ last' = Last("item_alloc2", key, r.s, r.s, "", -1)
                /\ inflight' = inflight + 1
        /\ UNCHANGED <<freeitemtotal, store, held, fault>>

\* switch (ret = dbp->get(dbp, NULL, &dbkey, &dbdata, 0))
GetRead(w, fail) ==
    /\ pc[w] = "read"
    /\ \E r \in {db_get(dbkey[w], dbdata[w].ulen, fail)} :
        /\ IF r.ret = DB_OK
           THEN /\ heap' = [heap EXCEPT ![it[w]] = ReadInto(@, store[dbkey[w]])]
                /\ GetReturn(w, item_get_result(r.ret, it[w]), r.ret)
           ELSE /\ pc' = [pc EXCEPT ![w] = r.ret]
                /\ dbdata' = [dbdata EXCEPT ![w].size =
                                 IF r.ret = DB_BUFFER_SMALL THEN r.size ELSE @]
                /\ cnt' = [cnt EXCEPT ![w].reads = @ + 1]
                /\ last' = Last("dbp_get", dbkey[w], it[w], 0, r.ret, -1)
                /\ UNCHANGED <<heap, it, dbkey, held>>
        /\ UNCHANGED <<poolvars, store, inflight, fault>>

\* A handler whose DB_NOTFOUND and default cases leave the loop without
\* item_free(it).
GetFree_norelease(w, ok) ==
    /\ pc[w] \in {DB_BUFFER_SMALL, DB_NOTFOUND, DB_ERROR}
    /\ IF pc[w] = DB_BUFFER_SMALL
       THEN \E r \in {item_free(it[w], ok)} :
                /\ freeitem' = r.freeitem
                /\ freeitemcurr' = r.freeitemcurr
                /\ freeitemtotal' = r.freeitemtotal
                /\ heap' = r.heap
                /\ inflight' = inflight - 1
                /\ fault' = (fault \/ BadFree(it[w]))
                /\ pc' = [pc EXCEPT ![w] = "alloc"]
                /\ cnt' = [cnt EXCEPT ![w].frees = @ + 1]
                /\ last' = Last("item_free", <<>>, it[w], r.ret, "", r.add)
                /\ UNCHANGED <<it, dbkey, dbdata, held>>
       ELSE /\ GetReturn(w, NULL, pc[w])
            /\ inflight' = inflight - 1
            /\ UNCHANGED <<poolvars, heap, fault>>
    /\ UNCHANGED store

\* item_free(it) of the cases DB_BUFFER_SMALL, DB_NOTFOUND and default;
\* the last two then set it = NULL and leave the loop.
GetFree(w, ok) ==
    /\ pc[w] \in {DB_BUFFER_SMALL, DB_NOTFOUND, DB_ERROR}
    /\ \E r \in {item_free(it[w], ok)} :
        /\ freeitem' = r.freeitem
        /\ freeitemcurr' = r.freeitemcurr
        /\ freeitemtotal' = r.freeitemtotal
        /\ heap' = r.heap
        /\ inflight' = inflight - 1
        /\ fault' = (fault \/ BadFree(it[w]))
        /\ IF pc[w] = DB_BUFFER_SMALL
           THEN /\ pc' = [pc EXCEPT ![w] = "alloc"]
                /\ cnt' = [cnt EXCEPT ![w].frees = @ + 1]
                /\ last' = Last("item_free", <<>>, it[w], r.ret, "", r.add)
                /\ UNCHANGED <<it, dbkey, dbdata, held>>
           ELSE GetReturn(w, item_get_result(pc[w], it[w]), pc[w])
        /\ UNCHANGED store

\* A resize that releases `it` again when the allocation fails.
GetAlloc_refree(w, ok) ==
    /\ pc[w] = "alloc"
    /\ \E r \in {item_alloc2(dbdata[w].size, ok)} :
        IF r.s = NULL
        THEN \E f \in {item_free(it[w], TRUE)} :
                 /\ freeitem' = f.freeitem
                 /\ freeitemcurr' = f.freeitemcurr
                 /\ freeitemtotal' = f.freeitemtotal
                 /\ heap' = f.heap
                 /\ fault' = TRUE
                 /\ GetReturn(w, NULL, DB_BUFFER_SMALL)
                 /\ UNCHANGED <<inflight, store>>
        ELSE /\ freeitem' = r.freeitem
             /\ freeitemcurr' = r.freeitemcurr
             /\ heap' = r.heap
             /\ pc' = [pc EXCEPT ![w] = "read"]
             /\ it' = [it EXCEPT ![w] = r.s]
             /\ dbdata' = [dbdata EXCEPT ![w].ulen = dbdata[w].size]
             /\ cnt' = [cnt EXCEPT ![w].allocs = @ + 1]
             /\ inflight' = inflight + 1
             /\ last' = Last("item_alloc2", dbkey[w], r.s, r.s, "", -1)
             /\ UNCHANGED <<dbkey, held, freeitemtotal, store, fault>>

\* A resize that leaves dbdata.ulen at its old value.
GetAlloc_keepulen(w, ok) ==
    /\ pc[w] = "alloc"
    /\ \E r \in {item_alloc2(dbdata[w].size, ok)} :
        /\ freeitem' = r.freeitem
        /\ freeitemcurr' = r.freeitemcurr
        /\ heap' = r.heap
        /\ IF r.s = NULL
           THEN /\ GetReturn(w, NULL, DB_BUFFER_SMALL)
                /\ UNCHANGED inflight
           ELSE /\ pc' = [pc EXCEPT ![w] = "read"]
                /\ it' = [it EXCEPT ![w] = r.s]
                /\ cnt' = [cnt EXCEPT ![w].allocs = @ + 1]
                /\ inflight' = inflight + 1
                /\ last' = Last("item_alloc2", dbkey[w], r.s, r.s, "", -1)
                /\ UNCHANGED <<dbkey, dbdata, held>>
        /\ UNCHANGED <<freeitemtotal, store, fault>>

\* it = item_alloc2(dbdata.size); dbdata.ulen = dbdata.size.
GetAlloc(w, ok) ==
    /\ pc[w] = "alloc"
    /\ \E r \in {item_alloc2(dbdata[w].size, ok)} :
        /\ freeitem' = r.freeitem
        /\ freeitemcurr' = r.freeitemcurr
        /\ heap' = r.heap
        /\ IF r.s = NULL
           THEN /\ GetReturn(w, NULL, DB_BUFFER_SMALL)
                /\ UNCHANGED inflight
           ELSE /\ pc' = [pc EXCEPT ![w] = "read"]
                /\ it' = [it EXCEPT ![w] = r.s]
                /\ dbdata' = [dbdata EXCEPT ![w].ulen = dbdata[w].size]
                /\ cnt' = [cnt EXCEPT ![w].allocs = @ + 1]
                /\ inflight' = inflight + 1
                /\ last' = Last("item_alloc2", dbkey[w], r.s, r.s, "", -1)
                /\ UNCHANGED <<dbkey, held>>
        /\ UNCHANGED <<freeitemtotal, store, fault>>

(***************************************************************************)
(* The concurrent specification: callers allocate, write, delete, probe    *)
(* and release records while a worker runs item_get.  Every allocation and *)
(* every store call may fail.  Return values are not recorded.             *)
(***************************************************************************)
GetWorkers == {"w1"}

CallerAllocOf(sizes) ==
    \E k \in Keys, n \in sizes, p \in Payloads, ok \in BOOLEAN :
        Alloc1(k, 0, n, p, ok, FALSE) /\ UNCHANGED <<rt, observe>>

CallerAlloc == CallerAllocOf(NBytes)

CallerFree ==
    \E b \in held, ok \in BOOLEAN : Free(b, ok) /\ UNCHANGED <<rt, observe>>

CallerFreeNull ==
    \E ok \in BOOLEAN : FreeNull(ok) /\ UNCHANGED <<rt, observe>>

CallerPut ==
    \E k \in Keys, b \in held, fail \in BOOLEAN :
        Put(k, b, fail, FALSE) /\ UNCHANGED <<rt, observe>>

CallerDelete ==
    \E k \in Keys, fail \in BOOLEAN : Delete(k, fail) /\ UNCHANGED <<rt, observe>>

CallerExists ==
    \E k \in Keys, fail \in BOOLEAN : Exists(k, fail) /\ UNCHANGED <<rt, observe>>

WorkerGetStart ==
    \E w \in GetWorkers, k \in Keys, ok \in BOOLEAN :
        GetStart(w, k, ok) /\ UNCHANGED <<rt, observe>>

WorkerGetRead ==
    \E w \in GetWorkers, fail \in BOOLEAN :
        GetRead(w, fail) /\ UNCHANGED <<rt, observe>>

WorkerGetFree ==
    \E w \in GetWorkers, ok \in BOOLEAN :
        GetFree(w, ok) /\ UNCHANGED <<rt, observe>>

WorkerGetAlloc ==
    \E w \in GetWorkers, ok \in BOOLEAN :
        GetAlloc(w, ok) /\ UNCHANGED <<rt, observe>>

Next ==
    \/ CallerAlloc
    \/ CallerFree
    \/ CallerPut
    \/ CallerDelete
    \/ CallerExists
    \/ WorkerGetStart
    \/ WorkerGetRead
    \/ WorkerGetFree
    \/ WorkerGetAlloc

Spec == Init /\ [][Next]_vars

(***************************************************************************)
(* The pool specification: callers allocate and release records of both    *)
(* size classes; return values are recorded in `last`.                     *)
(***************************************************************************)
NextPool ==
    \/ CallerAlloc
    \/ CallerFree
    \/ CallerFreeNull

SpecPool == InitWith(TRUE) /\ [][NextPool]_vars

(***************************************************************************)
(* The routing specification: callers allocate and release records of both *)
(* size classes with keys of 1 and of 255 bytes; return values are         *)
(* recorded in `last`.                                                     *)
(***************************************************************************)
KeysRoute == {KeyOfLen(1), KeyOfLen(255)}

RouteAlloc ==
    \E k \in KeysRoute, n \in NBytes, p \in Payloads, ok \in BOOLEAN,
       clobber \in BOOLEAN :
        Alloc1(k, 0, n, p, ok, clobber) /\ UNCHANGED <<rt, observe>>

NextRoute ==
    \/ RouteAlloc
    \/ CallerFree

SpecRoute == InitWith(TRUE) /\ [][NextRoute]_vars

(***************************************************************************)
(* The store specification: one caller, holding one record at a time,      *)
(* writes, deletes and probes while a worker runs item_get; return values  *)
(* are recorded in `last`.                                                 *)
(***************************************************************************)
OneAlloc == held = {} /\ CallerAlloc

OneGetStart == held = {} /\ WorkerGetStart

NextStore ==
    \/ OneAlloc
    \/ CallerFree
    \/ CallerPut
    \/ CallerDelete
    \/ CallerExists
    \/ OneGetStart
    \/ WorkerGetRead
    \/ WorkerGetFree
    \/ WorkerGetAlloc

SpecStore == InitWith(TRUE) /\ [][NextStore]_vars

(***************************************************************************)
(* The growing-record specification: as the store specification, with      *)
(* records of two sizes above the standard size, so that a writer can      *)
(* enlarge the record between two reads of one item_get.                   *)
(***************************************************************************)
GrowAlloc == held = {} /\ CallerAllocOf(NBytesGrow)

NextGrow ==
    \/ GrowAlloc
    \/ CallerFree
    \/ CallerPut
    \/ CallerDelete
    \/ OneGetStart
    \/ WorkerGetRead
    \/ WorkerGetFree
    \/ WorkerGetAlloc

SpecGrow == InitWith(FALSE) /\ [][NextGrow]_vars

(***************************************************************************)
(* The quiet-writer specification: the caller allocates, writes and        *)
(* deletes only while no item_get is running, so the record under the key  *)
(* does not change during a call; buffers may be released at any time.     *)
(* Every allocation and every store call returns, with success or with     *)
(* failure, and a worker inside item_get keeps running: each step of       *)
(* item_get is weakly fair.                                                *)
(***************************************************************************)
Quiet == \A w \in Workers : pc[w] = "idle"

QuietAlloc == Quiet /\ OneAlloc

QuietPut == Quiet /\ CallerPut

QuietDelete == Quiet /\ CallerDelete

NextQuiet ==
    \/ QuietAlloc
    \/ QuietPut
    \/ QuietDelete
    \/ CallerFree
    \/ OneGetStart
    \/ WorkerGetRead
    \/ WorkerGetFree
    \/ WorkerGetAlloc

SpecQuiet ==
    /\ InitWith(TRUE)
    /\ [][NextQuiet]_vars
    /\ WF_vars(WorkerGetRead)
    /\ WF_vars(WorkerGetFree)
    /\ WF_vars(WorkerGetAlloc)

(***************************************************************************)
(* The round-trip specification: one caller builds a record with           *)
(* item_alloc1, fills it, writes it with item_put and reads it back with   *)
(* item_get; no allocation and no store call fails.                        *)
(***************************************************************************)
RTAlloc ==
    /\ rt.phase = "init"
    /\ \E k \in KeysRT, f \in FlagsRT, n \in NBytesRT, p \in PayloadsRT,
          clobber \in BOOLEAN :
          /\ Alloc1(k, f, n, p, TRUE, clobber)
          /\ rt' = [phase |-> "alloc", key |-> k, flags |-> f, nbytes |-> n,
                    payload |-> p, it |-> last'.buf]
          /\ UNCHANGED observe

RTPut ==
    /\ rt.phase = "alloc"
    /\ \E clobber \in BOOLEAN : Put(rt.key, rt.it, FALSE, clobber)
    /\ rt' = [rt EXCEPT !.phase = "put"]
    /\ UNCHANGED observe

RTGetStart ==
    /\ rt.phase = "put"
    /\ GetStart("w1", rt.key, TRUE)
    /\ rt' = [rt EXCEPT !.phase = "get"]
    /\ UNCHANGED observe

RTGetRead ==
    rt.phase = "get" /\ GetRead("w1", FALSE) /\ UNCHANGED <<rt, observe>>

RTGetFree ==
    rt.phase = "get" /\ GetFree("w1", TRUE) /\ UNCHANGED <<rt, observe>>

RTGetAlloc ==
    rt.phase = "get" /\ GetAlloc("w1", TRUE) /\ UNCHANGED <<rt, observe>>

NextRT ==
    \/ RTAlloc
    \/ RTPut
    \/ RTGetStart
    \/ RTGetRead
    \/ RTGetFree
    \/ RTGetAlloc

SpecRT == InitWith(TRUE) /\ [][NextRT]_vars

(***************************************************************************)
(* Reading a suffix back: " <flags> <length>\r\n".                          *)
(***************************************************************************)
IsDigit(ch) == \E d \in 0..9 : Digit(d) = ch

DigitVal(ch) == CHOOSE d \in 0..9 : Digit(d) = ch

RECURSIVE ParseNat(_)
ParseNat(str) ==
    IF Len(str) = 1 THEN DigitVal(str[1])
    ELSE 10 * ParseNat(SubSeq(str, 1, Len(str) - 1)) + DigitVal(str[Len(str)])

IsDec(str) ==
    LET digits == IF Len(str) > 0 /\ str[1] = "-" THEN Tail(str) ELSE str
    IN  Len(digits) > 0 /\ \A i \in 1..Len(digits) : IsDigit(digits[i])

ParseDec(str) == IF str[1] = "-" THEN 0 - ParseNat(Tail(str)) ELSE ParseNat(str)

\* The positions of the second space of a suffix.
Spaces(sfx) == {j \in 2..Len(sfx) : sfx[j] = " "}

WellFormedSuffix(sfx) ==
    /\ Len(sfx) >= 6
    /\ sfx[1] = " "
    /\ sfx[Len(sfx) - 1] = "\r"
    /\ sfx[Len(sfx)] = "\n"
    /\ Cardinality(Spaces(sfx)) = 1
    /\ \A j \in Spaces(sfx) :
          /\ IsDec(SubSeq(sfx, 2, j - 1))
          /\ IsDec(SubSeq(sfx, j + 1, Len(sfx) - 2))

SuffixFlags(sfx) ==
    LET j == CHOOSE i \in Spaces(sfx) : TRUE IN ParseDec(SubSeq(sfx, 2, j - 1))

SuffixLength(sfx) ==
    LET j == CHOOSE i \in Spaces(sfx) : TRUE
    IN  ParseDec(SubSeq(sfx, j + 1, Len(sfx) - 2))

(***************************************************************************)
(* Claims.                                                                 *)
(***************************************************************************)
\* The record item_get returned at the end of the round trip.
RTDone == rt.phase = "get" /\ last.op = "item_get"

\* C1: round trip.  When item_get returns after item_put of the record
\* built by item_alloc1 and filled with the payload, it returns a non-null
\* record whose key length, key bytes, suffix (flags and payload length) and
\* payload bytes are those given to item_alloc1.
C1_RoundTrip ==
    RTDone =>
        /\ last.ret # NULL
        /\ LET c == heap[last.ret]
           IN  /\ c.nkey = Len(rt.key)
               /\ c.key = rt.key
               /\ c.nbytes = rt.nbytes
               /\ c.nsuffix = Len(c.suffix)
               /\ WellFormedSuffix(c.suffix)
               /\ SuffixFlags(c.suffix) = rt.flags
               /\ SuffixLength(c.suffix) = rt.nbytes - 2
               /\ c.data = rt.payload

\* The round trip of a key whose nkey + 1 fits in 8 bits.
RoundTripBelow255 == Len(rt.key) < 255 => C1_RoundTrip

\* The bytes of a record with key k (its NUL included), flags f and nbytes n.
RecordSize(k, f, n) ==
    sizeof_item + (Len(k) + 1) + Len(SuffixText(f, n)) + n

\* C2: total size.  The size item_alloc1 obtains from item_make_header is
\* header size + key bytes + suffix length + payload length, and the buffer
\* item_alloc1 returns has at least that many bytes; the 8-bit key length
\* argument does not wrap.
C2_TotalSize ==
    rt.phase # "init" =>
        /\ item_make_header(Len(rt.key) + 1, rt.flags, rt.nbytes).ntotal
             = RecordSize(rt.key, rt.flags, rt.nbytes)
        /\ heap[rt.it].cap >= RecordSize(rt.key, rt.flags, rt.nbytes)

\* The total size of a key whose nkey + 1 fits in 8 bits.
TotalSizeBelow255 == Len(rt.key) < 255 => C2_TotalSize

(***************************************************************************)
(* Ownership.                                                              *)
(***************************************************************************)
\* A worker holds the buffer `it` points to from the allocation until the
\* item_free or the return that follows the store read.
Holding(w) == pc[w] \in {"read", DB_BUFFER_SMALL, DB_NOTFOUND, DB_ERROR}

OwnedBy(w) == IF Holding(w) THEN {it[w]} ELSE {}

Owned == held \cup UNION {OwnedBy(w) : w \in Workers}

Pooled == {freeitem[i] : i \in 1..freeitemcurr}

Live == {b \in BufIds : heap[b].cap > 0}

\* C3: with every pool operation atomic, no buffer is owned by two
\* operations at once, no owned buffer is in the freelist, no buffer is in
\* two freelist slots, and the buffers in flight are the acquisitions minus
\* the releases.
C3_ExclusiveOwnership ==
    /\ \A w \in Workers : OwnedBy(w) \cap held = {}
    /\ \A w1, w2 \in Workers : w1 # w2 => OwnedBy(w1) \cap OwnedBy(w2) = {}
    /\ \A b \in Owned : b \in Live /\ b \notin Pooled
    /\ \A i, j \in 1..freeitemcurr : i # j => freeitem[i] # freeitem[j]
    /\ inflight = Cardinality(held) + Cardinality({w \in Workers : Holding(w)})

\* A worker holds a buffer while a caller holds another and the freelist
\* holds a third.
C3_Witness ==
    /\ pc["w1"] = "read"
    /\ held # {}
    /\ freeitemcurr > 0

\* C4: in every state 0 <= freeitemcurr <= freeitemtotal <=
\* MAX_ITEM_FREELIST_LENGTH and freeitemtotal never decreases; a release
\* into a full freelist below the maximum doubles freeitemtotal once, only
\* when the reallocation succeeds, and stores the buffer; a release into a
\* full freelist at the maximum returns 1 and leaves freeitemcurr,
\* freeitemtotal and the entries unchanged.
C4_PoolGrowth ==
    /\ [](/\ 0 <= freeitemcurr
          /\ freeitemcurr <= freeitemtotal
          /\ freeitemtotal <= MAX_ITEM_FREELIST_LENGTH
          /\ Len(freeitem) = freeitemtotal)
    /\ [][/\ freeitemtotal' >= freeitemtotal
          /\ freeitemtotal' # freeitemtotal =>
                /\ freeitemtotal' = 2 * freeitemtotal
                /\ freeitemcurr = freeitemtotal
                /\ freeitemcurr' = freeitemcurr + 1
                /\ last'.op = "item_free" /\ last'.add = 0
                /\ freeitem'[freeitemcurr'] = last'.buf
                /\ \A i \in 1..freeitemcurr : freeitem'[i] = freeitem[i]
          /\ (last'.op = "item_free" /\ last'.add # -1
                 /\ freeitemcurr = freeitemtotal) =>
                IF freeitemtotal >= MAX_ITEM_FREELIST_LENGTH
                THEN last'.add = 1 /\ UNCHANGED poolvars
                ELSE \/ last'.add = 0 /\ freeitemtotal' = 2 * freeitemtotal
                     \/ last'.add = 1 /\ UNCHANGED poolvars
         ]_vars

\* A release found the freelist full at its maximum and was refused.
C4_Witness ==
    /\ last.op = "item_free"
    /\ last.add = 1
    /\ freeitemcurr = freeitemtotal
    /\ freeitemtotal = MAX_ITEM_FREELIST_LENGTH

\* C5: every buffer in the freelist has exactly the standard size.
C5_PooledAreStandard ==
    \A i \in 1..freeitemcurr : heap[freeitem[i]].cap = item_buf_size

\* C6: item_get owns exactly one buffer while a store read is outstanding or
\* its result is being handled, none between the release and the allocation
\* of a resize, releases no buffer twice and leaks none: every allocated
\* buffer is in the freelist, held by a caller or owned by a running call.
C6_GetOwnsOneBuffer ==
    /\ ~fault
    /\ \A w \in Workers :
          /\ Holding(w) => /\ cnt[w].allocs - cnt[w].frees = 1
                           /\ it[w] \in Live
                           /\ it[w] \notin Pooled
          /\ pc[w] = "alloc" => cnt[w].allocs - cnt[w].frees = 0
          /\ pc[w] = "idle" => cnt[w] = NoCnt /\ it[w] = NULL
    /\ Live = Pooled \cup Owned

\* A call reads again after a resize: one buffer released, the second owned.
C6_Witness ==
    /\ pc["w1"] = "read"
    /\ cnt["w1"].allocs = 2
    /\ cnt["w1"].frees = 1

\* Store reads a call has issued, the outstanding one included.
ReadsIssued(w) == cnt[w].reads + (IF pc[w] = "read" THEN 1 ELSE 0)

\* C7: one item_get issues at most two store reads and performs at most two
\* allocations.
C7_AtMostTwoReads ==
    \A w \in Workers : ReadsIssued(w) <= 2 /\ cnt[w].allocs <= 2

\* C7 as amended: a retry is answered DB_BUFFER_SMALL only when the record
\* is larger than the size the previous read reported; every
\* DB_BUFFER_SMALL is followed by one release and one allocation, so the
\* call has allocated once per read issued.
C7_RetryOnlyIfGrown ==
    /\ [](\A w \in Workers :
            /\ pc[w] = "read" => cnt[w].allocs = ReadsIssued(w)
            /\ pc[w] = "alloc" => cnt[w].frees = cnt[w].reads
            /\ pc[w] = "read" /\ cnt[w].reads >= 1 =>
                  dbdata[w].ulen = dbdata[w].size)
    /\ [][\A w \in Workers :
            (pc[w] = "read" /\ cnt[w].reads >= 1 /\ pc'[w] = DB_BUFFER_SMALL)
              => dbdata'[w].size > dbdata[w].size]_vars

\* The retry of a call was answered DB_BUFFER_SMALL.
C7_Witness == pc["w1"] = DB_BUFFER_SMALL /\ cnt["w1"].reads = 2

\* C8: a store error is never reported with the result of DB_NOTFOUND or of
\* success by item_get, item_delete and item_exists, and item_put reports
\* every status but success as -1.
C8_ErrorsSurfaced ==
    /\ (last.op = "item_get" /\ last.status = DB_ERROR) =>
          \A b \in BufIds :
              /\ last.ret # item_get_result(DB_NOTFOUND, b)
              /\ last.ret # item_get_result(DB_OK, b)
    /\ (last.op = "item_delete" /\ last.status = DB_ERROR) =>
          /\ last.ret # item_delete_result(DB_NOTFOUND)
          /\ last.ret # item_delete_result(DB_OK)
    /\ (last.op = "item_exists" /\ last.status = DB_ERROR) =>
          /\ last.ret # item_exists_result(DB_NOTFOUND)
          /\ last.ret # item_exists_result(DB_OK)
    /\ (last.op = "item_put" /\ last.status # DB_OK) => last.ret = -1

Slots(b) == Cardinality({i \in 1..freeitemcurr : freeitem[i] = b})

\* C10: item_free of a record returns 0 and leaves the buffer either in
\* exactly one freelist slot or freed and in no slot; when
\* do_item_add_to_freelist fails the buffer is freed.
C10_FreeNeverLoses ==
    (last.op = "item_free" /\ last.buf # NULL) =>
        /\ last.ret = 0
        /\ \/ last.buf \in Live /\ Slots(last.buf) = 1
           \/ last.buf \notin Live /\ Slots(last.buf) = 0
        /\ last.add = 1 => last.buf \notin Live
        /\ last.add = 0 => last.buf \in Live

\* The growth of the freelist failed and the buffer was freed.
C10_Witness ==
    /\ last.op = "item_free"
    /\ last.add = 1
    /\ freeitemtotal < MAX_ITEM_FREELIST_LENGTH

\* C11: item_free(NULL) returns 0 and leaves the freelist entries,
\* freeitemcurr, freeitemtotal and every buffer unchanged, whatever the
\* state of the pool.
C11_FreeNullNoop ==
    [][(last'.op = "item_free" /\ last'.buf = NULL) =>
          /\ last'.ret = 0
          /\ last'.add = -1
          /\ UNCHANGED <<poolvars, heap, held, inflight>>]_vars

\* item_free(NULL) was called with the freelist full at its maximum.
C11_Witness ==
    /\ last.op = "item_free"
    /\ last.buf = NULL
    /\ freeitemcurr = freeitemtotal
    /\ freeitemtotal = MAX_ITEM_FREELIST_LENGTH

\* C12: item_exists, item_put and item_delete acquire and release no
\* buffer: each leaves the freelist entries, freeitemcurr, freeitemtotal
\* and every buffer unchanged, and the record given to item_put is
\* unchanged and still owned by the caller whether the write succeeds or
\* fails.
C12_StoreOpsKeepPool ==
    [][(last'.op \in {"item_put", "item_delete", "item_exists"}) =>
          /\ UNCHANGED <<poolvars, heap, held, inflight>>
          /\ last'.op = "item_put" =>
                /\ last'.buf \in held'
                /\ heap'[last'.buf] = heap[last'.buf]
                /\ last'.buf \notin Pooled']_vars

\* An item_put failed while the caller owned the record.
C12_Witness ==
    /\ last.op = "item_put"
    /\ last.ret = -1
    /\ last.buf \in held

\* The step is an item_alloc1 that returned a record of `size` bytes in
\* all, as RecordSize counts them.
AllocOfSize(size) ==
    /\ last'.op = "item_alloc1"
    /\ last'.buf # NULL
    /\ RecordSize(last'.key, 0, heap'[last'.buf].nbytes) = size

RecordSizes ==
    {RecordSize(k, 0, n) : k \in KeysRoute, n \in NBytes}

\* What size-class routing allows a step to do.
RoutingStep ==
    /\ \A size \in RecordSizes :
          AllocOfSize(size) =>
              IF size <= item_buf_size
              THEN /\ freeitemtotal' = freeitemtotal
                   /\ freeitemcurr > 0 =>
                         /\ freeitemcurr' = freeitemcurr - 1
                         /\ last'.buf = freeitem[freeitemcurr]
                   /\ freeitemcurr = 0 => UNCHANGED poolvars
              ELSE UNCHANGED poolvars
    /\ (/\ last'.op = "item_free"
        /\ last'.buf # NULL
        /\ ITEM_ntotal(heap[last'.buf]) > item_buf_size) =>
            /\ UNCHANGED poolvars
            /\ last'.add = -1

\* C13: size-class routing.  item_alloc1 of a record of at most the
\* standard size pops its buffer from the freelist when the freelist is not
\* empty; item_alloc1 of a record above the standard size, and item_free of
\* that record, leave freeitemcurr, freeitemtotal and the entries
\* unchanged.
C13_SizeClassRouting == [][RoutingStep]_vars

\* Size-class routing of records whose key has fewer than 255 bytes.
RoutingBelow255 ==
    [][(last'.op = "item_alloc1" /\ Len(last'.key) = 255) \/ RoutingStep]_vars

\* The step is an item_alloc1 of a record of at most the standard size
\* made while the freelist was not empty.
PopStep ==
    /\ last'.op = "item_alloc1"
    /\ last'.buf # NULL
    /\ ITEM_ntotal(heap'[last'.buf]) <= item_buf_size
    /\ freeitemcurr > 0

\* The step is an item_free that do_item_add_to_freelist accepted.
PushStep == last'.op = "item_free" /\ last'.add = 0

\* C14: the freelist is a stack.  A successful do_item_add_to_freelist puts
\* the buffer on top of the entries, which stay as they are; while the
\* freelist is not empty do_item_from_freelist returns the top entry, the
\* one added last and not handed out since, takes exactly it off, and
\* allocates no buffer.
C14_Lifo ==
    [][/\ PushStep =>
             /\ freeitemcurr' = freeitemcurr + 1
             /\ freeitem'[freeitemcurr'] = last'.buf
             /\ \A i \in 1..freeitemcurr : freeitem'[i] = freeitem[i]
       /\ PopStep =>
             /\ last'.buf = freeitem[freeitemcurr]
             /\ freeitemcurr' = freeitemcurr - 1
             /\ freeitemtotal' = freeitemtotal
             /\ \A i \in 1..freeitemcurr' : freeitem'[i] = freeitem[i]
             /\ Live' = Live]_vars

\* A record was allocated from a freelist of two buffers: one is left.
C14_Witness ==
    /\ last.op = "item_alloc1"
    /\ last.buf # NULL
    /\ ITEM_ntotal(heap[last.buf]) <= item_buf_size
    /\ freeitemcurr = 1
    /\ heap[freeitem[1]].cap > 0
    /\ Cardinality(Live) = 2

\* item_get is about to call item_free(it).
Releasing(w) == pc[w] \in {DB_BUFFER_SMALL, DB_NOTFOUND, DB_ERROR}

\* C15: whenever item_get calls item_free, the total size item_free
\* computes from the header of the buffer is in the size class of the
\* buffer: above the standard size exactly when the buffer is.
C15_HeaderDescribesBuffer ==
    \A w \in Workers :
        Releasing(w) =>
            (ITEM_ntotal(heap[it[w]]) > item_buf_size)
                = (heap[it[w]].cap > item_buf_size)

\* The first read of the call was answered DB_BUFFER_SMALL and the second
\* read is outstanding.
Retrying(w) == pc[w] = "read" /\ cnt[w].reads = 1

\* C16: get-retry protocol.  After a first read answered DB_BUFFER_SMALL
\* with size S the call has released the first buffer once and then
\* allocated once more (two allocations in all); the second read declares
\* ulen = S into a buffer of exactly S bytes, and when it succeeds that
\* buffer is the record returned to the caller.
C16_GetRetry ==
    /\ [](\A w \in Workers :
            /\ (pc[w] = "alloc" /\ cnt[w].reads = 1) =>
                  cnt[w].frees = 1 /\ cnt[w].allocs = 1
            /\ Retrying(w) =>
                  /\ cnt[w].allocs = 2
                  /\ cnt[w].frees = 1
                  /\ dbdata[w].ulen = dbdata[w].size
                  /\ heap[it[w]].cap = dbdata[w].size
                  /\ ~fault)
    /\ [][\A w \in Workers :
            (Retrying(w) /\ last'.op = "item_get" /\ last'.status = DB_OK) =>
                /\ last'.ret = it[w]
                /\ last'.ret \in held'
                /\ heap'[last'.ret].cap = dbdata[w].size
                /\ ITEM_ntotal(heap'[last'.ret]) <= dbdata[w].size]_vars

\* item_get returned a record in a buffer above the standard size.
C16_Witness ==
    /\ last.op = "item_get"
    /\ last.status = DB_OK
    /\ last.ret # NULL
    /\ heap[last.ret].cap > item_buf_size

\* C17: termination of item_get.  When no writer changes the record during
\* the call and every allocation and store call returns, a running
\* item_get returns: it issues at most two store reads and reaches its
\* return.
C17_GetTerminates ==
    /\ [](\A w \in Workers : ReadsIssued(w) <= 2 /\ cnt[w].allocs <= 2)
    /\ \A w \in Workers : (pc[w] # "idle") ~> (pc[w] = "idle")

\* A call that had to resize has returned its record.
C17_Witness ==
    /\ Quiet
    /\ last.op = "item_get"
    /\ last.status = DB_OK
    /\ heap[last.ret].cap > item_buf_size

\* The step is an item_alloc1 that returned NULL.
Alloc1Failed == last'.op = "item_alloc1" /\ last'.ret = NULL

\* The step is an item_get that returned NULL from its first
\* item_alloc2.
GetStartFailed(w) ==
    pc[w] = "idle" /\ last'.op = "item_get" /\ last'.ret = NULL

\* The step is an item_get that returned NULL from the item_alloc2 of a
\* resize.
ResizeFailed(w) == pc[w] = "alloc" /\ last'.op = "item_get"

\* C18: a failed allocation leaves no partial state.  do_item_from_freelist
\* with an empty freelist and a failing malloc returns NULL and changes
\* nothing; item_alloc1 and item_alloc2 that return NULL leave the freelist
\* entries, freeitemcurr, freeitemtotal and every buffer unchanged; when
\* the allocation of a resize fails item_get returns NULL, having released
\* the first buffer once, and issues no further store read.
C18_AllocFailure ==
    /\ [](/\ freeitemcurr = 0 =>
                do_item_from_freelist(FALSE)
                    = [s |-> NULL, freeitem |-> freeitem,
                       freeitemcurr |-> freeitemcurr, heap |-> heap]
          /\ \A w \in Workers :
                pc[w] = "alloc" =>
                    /\ cnt[w].frees = cnt[w].reads
                    /\ OwnedBy(w) = {}
                    /\ ~fault)
    /\ [][/\ Alloc1Failed => UNCHANGED <<poolvars, heap, held, inflight>>
          /\ \A w \in Workers :
                /\ GetStartFailed(w) =>
                      UNCHANGED <<poolvars, heap, held, inflight, getvars>>
                /\ ResizeFailed(w) =>
                      /\ last'.ret = NULL
                      /\ last'.status = DB_BUFFER_SMALL
                      /\ pc'[w] = "idle"
                      /\ it'[w] = NULL
                      /\ UNCHANGED <<poolvars, heap, held, inflight, fault>>
         ]_vars

\* item_get returned NULL because the allocation of its resize failed.
C18_Witness ==
    /\ last.op = "item_get"
    /\ last.ret = NULL
    /\ last.status = DB_BUFFER_SMALL

\* C19: item_alloc1 writes within the buffer it acquired: the header, the
\* key with its NUL, the suffix, and the payload region the header
\* describes all end at or before the capacity of the buffer.
C19_WritesWithinBuffer ==
    rt.phase # "init" =>
        LET b == heap[rt.it]
        IN  /\ b.nkey = Len(rt.key)
            /\ sizeof_item <= b.cap
            /\ ITEM_key_end(b) <= b.cap
            /\ ITEM_suffix_end(b) <= b.cap
            /\ ITEM_data_end(b) <= b.cap

\* The writes of a record whose key has fewer than 255 bytes.
WritesWithinBelow255 == Len(rt.key) < 255 => C19_WritesWithinBuffer

\* C20: at every store read of item_get the length declared to the store,
\* dbdata.ulen, is at most the capacity of the buffer the read writes to,
\* and every buffer in the freelist has at least the standard size.
C20_UlenWithinBuffer ==
    /\ \A w \in Workers :
          pc[w] = "read" =>
              /\ dbdata[w].ulen >= item_buf_size
              /\ dbdata[w].ulen <= heap[it[w]].cap
    /\ \A b \in Pooled : heap[b].cap >= item_buf_size

\* The first read of a call writes to a recycled buffer that is larger
\* than the standard size.
C20_Witness ==
    /\ pc["w1"] = "read"
    /\ cnt["w1"].reads = 0
    /\ dbdata["w1"].ulen = item_buf_size
    /\ heap[it["w1"]].cap > item_buf_size

====
